---- MODULE Spec2Model ----
(***************************************************************************)
(* Model of fanling-engine/src/simple.rs: the Simple item payload (name +  *)
(* text), its ItemData operations, and SimpleTypePolicy.                   *)
(*                                                                         *)
(* Rust Strings are sequences of one-character strings.  A call is one     *)
(* atomic step; `last` records the most recent call (operation, target,    *)
(* argument, returned Result and returned value).                          *)
(* A panic ends the control path: no further call is made after it.        *)
(***************************************************************************)
EXTENDS Naturals, Sequences, FiniteSets

VARIABLES objs, last, panicked, changes

vars == <<objs, last, panicked, changes>>

----------------------------------------------------------------------------
(* Bounds *)

MaxNameLen == 1
MaxTextLen == 1
MaxChanges == 2

NameChars == {"a"}
TextChars == {"a", "\n"}

StrUpTo(A, n) == UNION {[1..k -> A] : k \in 0..n}

Names == StrUpTo(NameChars, MaxNameLen)
Texts == StrUpTo(TextChars, MaxTextLen)

(* the two fields of struct Simple *)
Simple == [name : Names, text : Texts]

(* input maps HashMap<String, String>: each key present or absent *)
HashMapOf(ns, ts) ==
    [k \in ({"name" : x \in ns} \cup {"text" : x \in ts}) |->
        IF k = "name" THEN CHOOSE x \in ns : TRUE ELSE CHOOSE x \in ts : TRUE]

Opt(S) == {{}} \cup {{x} : x \in S}

ValsSet == {HashMapOf(ns, ts) : ns \in Opt(Names), ts \in Opt(Texts)}

(* the item bases: one identifier per item, kind Simple *)
Idents == << <<"i", "1">>, <<"i", "2">> >>
BaseOf(o) == [ident |-> Idents[o], kind |-> <<"s", "i", "m", "p", "l", "e">>]
Bases == {BaseOf(o) : o \in 1..2}

(* crate::Action values handed to do_action *)
Actions == {"act1", "act2"}

(* entries already in the ChangeList when a conflict is dispatched *)
ChangeEntries == {"w1", "w2"}
ChangeLists == StrUpTo(ChangeEntries, MaxChanges)

----------------------------------------------------------------------------
(* Results *)

OkRet == [kind |-> "Ok", msg |-> ""]
ErrRet(m) == [kind |-> "Err", msg |-> m]
PanicRet(m) == [kind |-> "Panic", msg |-> m]

NoVal == <<>>

----------------------------------------------------------------------------
(* str::replace with a one-character pattern *)
RECURSIVE replace(_, _, _)
replace(s, from, to) ==
    IF s = <<>> THEN <<>>
    ELSE (IF Head(s) = from THEN to ELSE <<Head(s)>>) \o replace(Tail(s), from, to)

(* Simple::new *)
new == [name |-> <<>>, text |-> <<>>]

----------------------------------------------------------------------------
(* impl ItemData for Simple.  Every method is an operator from the         *)
(* receiver and the arguments to [ret, val, self]: the Result, the value   *)
(* carried by Ok, and the receiver after the call.                         *)

(* template data handed to the view collaborator stands for the rendered   *)
(* "content" fragment; base_ok / render_ok are the outcomes of             *)
(* NewBaseTemplate::from_base(..)? and nt.render()?                        *)
for_edit_inplace(self, base, is_for_update, base_ok, render_ok) ==
    LET broken_text == replace(self.text, "\n", <<"&", "#", "1", "0", ";">>)
        after == [self EXCEPT !.text = broken_text]
    IN  IF ~base_ok THEN [ret |-> ErrRet("from_base"), val |-> NoVal, self |-> after]
        ELSE IF ~render_ok THEN [ret |-> ErrRet("render"), val |-> NoVal, self |-> after]
        ELSE [ret |-> OkRet,
              val |-> [clear_errors |-> {"name-error"},
                       content |-> [name |-> self.name,
                                    broken_text |-> broken_text,
                                    is_for_update |-> is_for_update]],
              self |-> after]

for_edit(self, base, is_for_update, base_ok, render_ok) ==
    LET broken_text == replace(self.text, "\n", <<"&", "#", "1", "0", ";">>)
    IN  IF ~base_ok THEN [ret |-> ErrRet("from_base"), val |-> NoVal, self |-> self]
        ELSE IF ~render_ok THEN [ret |-> ErrRet("render"), val |-> NoVal, self |-> self]
        ELSE [ret |-> OkRet,
              val |-> [clear_errors |-> {"name-error"},
                       content |-> [name |-> self.name,
                                    broken_text |-> broken_text,
                                    is_for_update |-> is_for_update]],
              self |-> self]

for_show(self, base, base_ok, render_ok) ==
    IF ~base_ok THEN [ret |-> ErrRet("from_base"), val |-> NoVal, self |-> self]
    ELSE IF ~render_ok THEN [ret |-> ErrRet("render"), val |-> NoVal, self |-> self]
    ELSE [ret |-> OkRet,
          val |-> [clear_errors |-> {},
                   content |-> [name |-> self.name, markdown |-> self.text]],
          self |-> self]

(* serde_yaml values: a mapping is the sequence of its <<key, value>>      *)
(* entries, a value is [t |-> type, v |-> characters]                      *)
Str(s) == [t |-> "str", v |-> s]
Mapping(es) == [kind |-> "mapping", entries |-> es]

(* ItemBaseForSerde::from_base: the base's fields as record entries *)
ItemBaseForSerde(base) == << <<"ident", Str(base.ident)>>, <<"type", Str(base.kind)>> >>

(* #[serde(flatten)] on both members of SimpleForSerde: one level of entries *)
SimpleForSerde(base, data) ==
    Mapping(base \o << <<"name", Str(data.name)>>, <<"text", Str(data.text)>> >>)

to_yaml_text_as_name(self, base, base_ok) ==
    IF ~base_ok THEN [ret |-> ErrRet("from_base"), val |-> NoVal, self |-> self]
    ELSE [ret |-> OkRet,
          val |-> SimpleForSerde(ItemBaseForSerde(base),
                                 [name |-> self.name, text |-> self.name]),
          self |-> self]

to_yaml(self, base, base_ok) ==
    IF ~base_ok THEN [ret |-> ErrRet("from_base"), val |-> NoVal, self |-> self]
    ELSE [ret |-> OkRet,
          val |-> SimpleForSerde(ItemBaseForSerde(base), self),
          self |-> self]

is_open(self) == TRUE

is_ready(self) == TRUE

description(self) == self.name

set_data_text_first(self, vals) ==
    LET t == IF "text" \in DOMAIN vals THEN vals["text"] ELSE <<>>
    IN  IF "name" \in DOMAIN vals
        THEN [ret |-> OkRet, val |-> NoVal, self |-> [name |-> vals["name"], text |-> t]]
        ELSE [ret |-> ErrRet("no name"), val |-> NoVal, self |-> [self EXCEPT !.text = t]]

set_data_keeps_text(self, vals) ==
    IF "name" \in DOMAIN vals
    THEN [ret |-> OkRet, val |-> NoVal,
          self |-> [name |-> vals["name"],
                    text |-> IF "text" \in DOMAIN vals THEN vals["text"] ELSE self.text]]
    ELSE [ret |-> ErrRet("no name"), val |-> NoVal, self |-> self]

set_data_nonblank(self, vals) ==
    IF "name" \in DOMAIN vals /\ vals["name"] # <<>>
    THEN [ret |-> OkRet, val |-> NoVal,
          self |-> [name |-> vals["name"],
                    text |-> IF "text" \in DOMAIN vals THEN vals["text"] ELSE <<>>]]
    ELSE [ret |-> ErrRet("no name"), val |-> NoVal, self |-> self]

set_data(self, vals) ==
    IF "name" \in DOMAIN vals
    THEN [ret |-> OkRet, val |-> NoVal,
          self |-> [name |-> vals["name"],
                    text |-> IF "text" \in DOMAIN vals THEN vals["text"] ELSE <<>>]]
    ELSE [ret |-> ErrRet("no name"), val |-> NoVal, self |-> self]

(* ActionResponse::new / ActionResponse::assert *)
ActionResponse_new == [success |-> TRUE, messages |-> <<>>]

ActionResponse_assert(ar, cond, tag, msg) ==
    IF cond THEN ar
    ELSE [success |-> FALSE, messages |-> Append(ar.messages, [tag |-> tag, msg |-> msg])]

try_update_checks_payload(self, base, vals) ==
    IF "name" \notin DOMAIN vals
    THEN [ret |-> PanicRet("key not found"), val |-> NoVal, self |-> self]
    ELSE [ret |-> OkRet,
          val |-> ActionResponse_assert(ActionResponse_new, self.name # <<>>,
                                        "name-error", "Name must be non-blank."),
          self |-> self]

(* vals["name"] is HashMap's Index, which panics on an absent key *)
try_update(self, base, vals) ==
    IF "name" \notin DOMAIN vals
    THEN [ret |-> PanicRet("key not found"), val |-> NoVal, self |-> self]
    ELSE [ret |-> OkRet,
          val |-> ActionResponse_assert(ActionResponse_new, vals["name"] # <<>>,
                                        "name-error", "Name must be non-blank."),
          self |-> self]

(* serde_yaml::from_value::<Simple>: a mapping holding each of the fields  *)
(* name and text once, as strings; other keys are ignored                  *)
Field(y, key) == {i \in 1..Len(y.entries) : y.entries[i][1] = key}

FieldOk(y, key) ==
    /\ Cardinality(Field(y, key)) = 1
    /\ \A i \in Field(y, key) : y.entries[i][2].t = "str"

FieldVal(y, key) == y.entries[CHOOSE i \in Field(y, key) : TRUE][2].v

from_value(y) ==
    IF y.kind = "mapping" /\ FieldOk(y, "name") /\ FieldOk(y, "text")
    THEN [ret |-> OkRet, val |-> [name |-> FieldVal(y, "name"), text |-> FieldVal(y, "text")]]
    ELSE [ret |-> ErrRet("deserialize"), val |-> NoVal]

set_from_yaml(self, y) ==
    LET r == from_value(y)
    IN  IF r.ret.kind = "Ok"
        THEN [ret |-> OkRet, val |-> NoVal, self |-> r.val]
        ELSE [ret |-> r.ret, val |-> NoVal, self |-> self]

do_action_ok(self, base, action) ==
    [ret |-> OkRet, val |-> [clear_errors |-> {}, content |-> NoVal], self |-> self]

do_action(self, base, action) ==
    [ret |-> ErrRet("simple do action called, should never happen"),
     val |-> NoVal, self |-> self]

fanling_clone(self) ==
    [ret |-> OkRet, val |-> [name |-> self.name, text |-> self.text], self |-> self]

(* SimpleTypePolicy::make_raw: the payload of the new item *)
make_raw == new

resolve_conflict_clears(conflict, chg) ==
    [ret |-> PanicRet("not implemented"), changes |-> <<>>]

(* SimpleTypePolicy::resolve_conflict: trace, then unimplemented!() *)
resolve_conflict(conflict, chg) ==
    [ret |-> PanicRet("not implemented"), changes |-> chg]

----------------------------------------------------------------------------
(* State.  objs[1] is the payload under edit; objs[2], once it exists, is  *)
(* a second payload (a clone, a fresh item, or the other session's copy).  *)
(* BaseOf(o) is the ItemBase of the item that owns objs[o].                 *)

NoCall == [op |-> "none", o |-> 0, arg |-> NoVal, ret |-> OkRet, val |-> NoVal]

Init ==
    /\ objs = <<new>>
    /\ last = NoCall
    /\ panicked = FALSE
    /\ changes = <<>>

Objects == 1..Len(objs)

(* a method call on objs[o] with result r *)
Call(op, o, arg, r) ==
    /\ ~panicked
    /\ last' = [op |-> op, o |-> o, arg |-> arg, ret |-> r.ret, val |-> r.val]
    /\ objs' = [objs EXCEPT ![o] = r.self]
    /\ panicked' = (r.ret.kind = "Panic")
    /\ UNCHANGED changes

ForEdit(o, is_for_update, base_ok, render_ok) ==
    /\ Call("for_edit", o, is_for_update,
            for_edit(objs[o], BaseOf(o), is_for_update, base_ok, render_ok))

ForShow(o, base_ok, render_ok) ==
    /\ Call("for_show", o, NoVal, for_show(objs[o], BaseOf(o), base_ok, render_ok))

ToYaml(o, base_ok) ==
    /\ Call("to_yaml", o, NoVal, to_yaml(objs[o], BaseOf(o), base_ok))

IsOpen(o) ==
    /\ Call("is_open", o, NoVal, [ret |-> OkRet, val |-> is_open(objs[o]), self |-> objs[o]])

IsReady(o) ==
    /\ Call("is_ready", o, NoVal, [ret |-> OkRet, val |-> is_ready(objs[o]), self |-> objs[o]])

Description(o) ==
    /\ Call("description", o, NoVal, [ret |-> OkRet, val |-> description(objs[o]), self |-> objs[o]])

SetData(o, vals) ==
    /\ Call("set_data", o, vals, set_data(objs[o], vals))

TryUpdate(o, vals) ==
    /\ Call("try_update", o, vals, try_update(objs[o], BaseOf(o), vals))

(* records handed to set_from_yaml of item o: one that to_yaml wrote for   *)
(* that item with some payload, or one that is not a Simple record         *)
Malformed ==
    { [kind |-> "scalar", entries |-> <<>>],
      Mapping(<< <<"name", Str(<<"a">>)>> >>),
      Mapping(<< <<"name", [t |-> "int", v |-> <<>>]>>, <<"text", Str(<<>>)>> >>) }

Written == [o \in 1..2 |-> {to_yaml(v, BaseOf(o), TRUE).val : v \in Simple}]

YamlInputs == [o \in 1..2 |-> Malformed \cup Written[o]]

SetFromYaml(o, y) ==
    /\ Call("set_from_yaml", o, y, set_from_yaml(objs[o], y))

DoAction(o, action) ==
    /\ Call("do_action", o, action, do_action(objs[o], BaseOf(o), action))

(* the Box returned by fanling_clone becomes the second payload *)
FanlingClone(o) ==
    LET r == fanling_clone(objs[o])
    IN  /\ ~panicked
        /\ last' = [op |-> "fanling_clone", o |-> o, arg |-> NoVal, ret |-> r.ret, val |-> r.val]
        /\ objs' = <<r.self, r.val>>
        /\ o = 1
        /\ UNCHANGED <<panicked, changes>>

(* the item made by make_raw becomes the second payload *)
MakeRaw ==
    /\ ~panicked
    /\ last' = [op |-> "make_raw", o |-> 2, arg |-> NoVal, ret |-> OkRet, val |-> make_raw]
    /\ objs' = <<objs[1], make_raw>>
    /\ UNCHANGED <<panicked, changes>>

Next ==
    \/ \E o \in Objects, u \in BOOLEAN, bo \in BOOLEAN, ro \in BOOLEAN : ForEdit(o, u, bo, ro)
    \/ \E o \in Objects, bo \in BOOLEAN, ro \in BOOLEAN : ForShow(o, bo, ro)
    \/ \E o \in Objects, bo \in BOOLEAN : ToYaml(o, bo)
    \/ \E o \in Objects : IsOpen(o)
    \/ \E o \in Objects : IsReady(o)
    \/ \E o \in Objects : Description(o)
    \/ \E o \in Objects, vals \in ValsSet : SetData(o, vals)
    \/ \E o \in Objects, vals \in ValsSet : TryUpdate(o, vals)
    \/ \E o \in Objects : \E y \in YamlInputs[o] : SetFromYaml(o, y)
    \/ \E o \in Objects, a \in Actions : DoAction(o, a)
    \/ \E o \in Objects : FanlingClone(o)
    \/ MakeRaw

Spec == Init /\ [][Next]_vars

----------------------------------------------------------------------------
(* A merge: two sessions hold the payload of one identifier, each applies  *)
(* its own input, and the divergent pair is dispatched to the resolver     *)
(* together with the batch's ChangeList.                                   *)

MergeInit ==
    /\ objs = <<new, new>>
    /\ last = NoCall
    /\ panicked = FALSE
    /\ changes \in ChangeLists

ResolveConflict ==
    LET conflict == [ours |-> objs[1], theirs |-> objs[2]]
        r == resolve_conflict(conflict, changes)
    IN  /\ ~panicked
        /\ objs[1] # objs[2]
        /\ last' = [op |-> "resolve_conflict", o |-> 0, arg |-> conflict, ret |-> r.ret, val |-> NoVal]
        /\ changes' = r.changes
        /\ panicked' = (r.ret.kind = "Panic")
        /\ UNCHANGED objs

MergeNext ==
    \/ \E o \in Objects, vals \in ValsSet : SetData(o, vals)
    \/ ResolveConflict

MergeSpec == MergeInit /\ [][MergeNext]_vars

----------------------------------------------------------------------------
(* Properties *)

IsPrefix(s, t) == Len(s) <= Len(t) /\ \A i \in 1..Len(s) : t[i] = s[i]

NameErrorMessage == [tag |-> "name-error", msg |-> "Name must be non-blank."]

(* C1: a set_data call whose input has no "name" key returns the error     *)
(* "no name" and leaves name and text of the payload as they were before   *)
(* the call, whether or not the input has a "text" key.                    *)
C1_NoNameFailsUnmutated ==
    [][ (last'.op = "set_data" /\ "name" \notin DOMAIN last'.arg)
            => /\ last'.ret = ErrRet("no name")
               /\ objs'[last'.o].name = objs[last'.o].name
               /\ objs'[last'.o].text = objs[last'.o].text
               /\ objs' = objs
      ]_vars

C1_Witness ==
    /\ last.op = "set_data"
    /\ DOMAIN last.arg = {"text"}
    /\ last.ret.kind = "Err"
    /\ objs[last.o].name # <<>>
    /\ objs[last.o].text # <<>>
    /\ last.arg["text"] # objs[last.o].text

(* C2: after a successful set_data the text is the input's "text" value,   *)
(* or the empty string when the input has no "text" key, whatever text the *)
(* payload held before the call.                                           *)
C2_TextIsLatestOrDefault ==
    (last.op = "set_data" /\ last.ret.kind = "Ok")
        => objs[last.o].text =
               (IF "text" \in DOMAIN last.arg THEN last.arg["text"] ELSE <<>>)

C2_Witness ==
    /\ last.op = "set_data"
    /\ last.ret.kind = "Ok"
    /\ "text" \notin DOMAIN last.arg
    /\ last.arg["name"] # <<>>
    /\ objs[last.o].text = <<>>

(* C3: decoding the record to_yaml wrote for payload v under any base      *)
(* succeeds and yields v's name, text, description and open/ready flags;   *)
(* the base's entries in the same record do not disturb them.              *)
C3_RoundTrip ==
    \A v \in Simple, b \in Bases :
        (last.op = "set_from_yaml" /\ last.arg = to_yaml(v, b, TRUE).val)
            => /\ last.ret = OkRet
               /\ objs[last.o].name = v.name
               /\ objs[last.o].text = v.text
               /\ description(objs[last.o]) = description(v)
               /\ is_open(objs[last.o]) = is_open(v)
               /\ is_ready(objs[last.o]) = is_ready(v)

C3_Witness ==
    /\ last.op = "set_from_yaml"
    /\ last.o = 2
    /\ last.arg = to_yaml([name |-> <<"a">>, text |-> <<"\n">>], BaseOf(2), TRUE).val
    /\ last.ret.kind = "Ok"
    /\ description(objs[2]) = <<"a">>
    /\ objs[1] = [name |-> <<"a">>, text |-> <<"\n">>]

(* C4 as stated: a dispatched conflict ends RESOLVED (Ok, one merged       *)
(* record appended to the ChangeList) or ESCALATED (a returned error       *)
(* signal, ChangeList as before), never in another outcome.                *)
C4_ResolvedOrEscalated ==
    [][ (last'.op = "resolve_conflict")
            => \/ /\ last'.ret.kind = "Ok"
                  /\ Len(changes') = Len(changes) + 1
                  /\ IsPrefix(changes, changes')
               \/ /\ last'.ret.kind = "Err"
                  /\ changes' = changes
      ]_vars

(* C5 as stated: try_update returns an ActionResponse for every input map; *)
(* a missing "name" is a collected failure in a response with success      *)
(* false.                                                                  *)
C5_AlwaysAResponse ==
    (last.op = "try_update")
        => /\ last.ret.kind = "Ok"
           /\ ("name" \notin DOMAIN last.arg => ~last.val.success)

(* C6: for an input with "name", try_update succeeds exactly when the name *)
(* is non-empty, an empty name carries "Name must be non-blank." under     *)
(* "name-error", and the response is the same for every payload, so it     *)
(* depends on the input alone.                                             *)
C6_NonBlankName ==
    (last.op = "try_update" /\ "name" \in DOMAIN last.arg)
        => /\ last.ret = OkRet
           /\ last.val.success <=> (last.arg["name"] # <<>>)
           /\ (last.arg["name"] = <<>>) => (last.val.messages = <<NameErrorMessage>>)
           /\ \A p \in Simple, b \in Bases : try_update(p, b, last.arg).val = last.val

C6_Witness ==
    /\ last.op = "try_update"
    /\ "name" \in DOMAIN last.arg
    /\ last.arg["name"] = <<>>
    /\ ~last.val.success
    /\ objs[last.o].name # <<>>

(* C7: do_action returns an error for every action and never changes the   *)
(* payload.                                                                *)
C7_DoActionFails ==
    [][ (last'.op = "do_action")
            => /\ last'.ret.kind = "Err"
               /\ objs' = objs
      ]_vars

C7_Witness ==
    /\ last.op = "do_action"
    /\ last.ret.kind = "Err"
    /\ objs[last.o].name # <<>>

(* C8: a resolve_conflict call keeps every entry the ChangeList held       *)
(* before it, in place; only a resolution appends, an escalated or failed  *)
(* one adds nothing.                                                       *)
C8_ChangeListAppendOnly ==
    [][ /\ IsPrefix(changes, changes')
        /\ (last'.op = "resolve_conflict" /\ last'.ret.kind # "Ok") => changes' = changes
      ]_vars

C8_Witness ==
    /\ last.op = "resolve_conflict"
    /\ last.ret.kind = "Panic"
    /\ Len(changes) = MaxChanges

(* C9: name and text of a payload change only in a successful set_data or  *)
(* set_from_yaml on that payload (the second payload is also replaced when *)
(* fanling_clone or make_raw creates it); every other operation, and every *)
(* operation on the other payload, leaves them as they were.               *)
C9_OnlySettersMutate ==
    [][ \A i \in 1..Len(objs) :
            (objs'[i] # objs[i])
                => \/ /\ last'.op \in {"set_data", "set_from_yaml"}
                      /\ last'.ret.kind = "Ok"
                      /\ last'.o = i
                   \/ /\ last'.op \in {"fanling_clone", "make_raw"}
                      /\ i = 2
      ]_vars

C9_Witness ==
    /\ last.op = "set_data"
    /\ last.o = 2
    /\ last.ret.kind = "Ok"
    /\ Len(objs) = 2
    /\ objs[1].text = <<"\n">>
    /\ objs[2].text # objs[1].text
    /\ objs[2].name # objs[1].name

(* C10: set_data succeeds whenever the input has a "name" key, the empty   *)
(* string included, and stores that name; so a payload can hold a name     *)
(* that try_update rejects.                                                *)
C10_AnyNameAccepted ==
    (last.op = "set_data" /\ "name" \in DOMAIN last.arg)
        => /\ last.ret = OkRet
           /\ objs[last.o].name = last.arg["name"]

C10_Witness ==
    /\ last.op = "set_data"
    /\ last.ret.kind = "Ok"
    /\ last.arg["name"] = <<>>
    /\ objs[last.o].name = <<>>
    /\ ~try_update(objs[last.o], BaseOf(last.o), last.arg).val.success

====
